---- MODULE Spec2Model ----
(***************************************************************************)
(* A model of the volcano / ashfall monitoring labs.                       *)
(*                                                                         *)
(*   Volcano.py  evaluate_alert, the guarded sensor / actuator / Firebase  *)
(*               helpers and main_loop                                      *)
(*   lab6.py, lab6_2.py, lab8.py                                           *)
(*               the simulated tremor update, and lab6's CSV logging       *)
(*   lab7.py     the data viewer's auto-refresh timer                      *)
(*   lab8.py     the kiosk: the sensor thread, update_loop and the         *)
(*               dashboard's update_data                                   *)
(*   lab6.py, lab6_2.py, lab8.py, lab8try.py                               *)
(*               the air-quality status tables and the tremor updates      *)
(*               compared with one another                                 *)
(*                                                                         *)
(* Units.  Python floats are modelled as scaled integers:                  *)
(*   accel_mag  in 0.001 g     (read_mpu_accel_mag rounds to 3 decimals)   *)
(*   mqv        in 0.001 V     (read_mq135_voltage rounds to 3 decimals)   *)
(*   temp       in 0.1 degC    (the DHT22's resolution)                    *)
(*   pm25       in ug/m3       (an integer in the PMS7003 frame)           *)
(*   tremor     in 0.001 m/s2  (calculate_tremor rounds to 3 decimals)     *)
(* An optional value (a number or None) is a sequence: <<>> for None,     *)
(* <<v>> for the number v.                                                 *)
(***************************************************************************)
EXTENDS Integers, Sequences, FiniteSets, TLC

VARIABLES
    \* ---- Volcano.py: module globals set at import time
    FIREBASE_AVAILABLE, DHT_AVAILABLE, PMS_AVAILABLE, MPU_AVAILABLE,
    ADS_AVAILABLE, GPIO_AVAILABLE,
    pwm_r,          \* "None" or "PWM": pwm_r, pwm_g, pwm_b are set together
    outPins,        \* the pins among BEACON_PIN, SIREN_PIN that GPIO.setup configured
    out,            \* what the program drives: [rgb, beacon, siren]
    \* ---- Volcano.py: main_loop's position and locals
    pc, temp, hum, pm, accel, mqv, level, reason, fb_ok,
    pushed,         \* history: what fb_ref.push did in the last firebase_log
    alarmed,        \* history: an earlier cycle ended with level >= 1
    \* ---- Volcano.evaluate_alert called on its own
    ea_pc, ea_args, ea_ret,
    \* ---- the simulated tremor of lab6.py, lab6_2.py and lab8.py
    prog,           \* which program runs
    tremor,         \* lab6 / lab6_2 main's current_tremor, lab8's self.tremor
    tpc,            \* "cycle": about to read and calculate; "sleep": in time.sleep
    \* ---- lab6.py runs over sensor_data.csv
    csv_exists, csv_lines, lpc, run, cycle, current_tremor,
    logged,         \* history: <<run, cycle>> of every completed logging cycle
    \* ---- lab7.py: the data viewer's auto-refresh
    auto_refresh,   \* the checkbox's BooleanVar
    after_queue,    \* pending root.after callbacks: seconds left to each, in due order
    since_refresh,  \* history: seconds since refresh_data was last called, up to 5
    \* ---- lab8.py: the kiosk's sensor thread and Tk callbacks
    sensors,        \* the SensorHandler's fields
    spc,            \* the sensor thread's position in _read_loop
    sleep_left,     \* seconds left of the sensor thread's time.sleep(3)
    current_page,   \* AshfallKiosk.current_page
    loop_timer,     \* seconds left to the pending update_loop callback
    hw,             \* what update_loop last asked of the RGB LED and the beacon
    beeps,          \* history: alert_beep('urgent') calls since read_count last changed
    upc,            \* DashboardPage.update_data's position
    seen,           \* update_data's locals pm25 and ash_level
    shown,          \* what the dashboard displays
    \* ---- the air-quality status tables called on their own
    aq_pc, aq_arg, aq_ret,
    \* ---- the tremor updates of the four programs side by side
    side,           \* the tremor each program holds
    side_pc         \* "cycle" or "sleep", as tpc

volcanoVars == <<FIREBASE_AVAILABLE, DHT_AVAILABLE, PMS_AVAILABLE, MPU_AVAILABLE,
                 ADS_AVAILABLE, GPIO_AVAILABLE, pwm_r, outPins, out,
                 pc, temp, hum, pm, accel, mqv, level, reason, fb_ok,
                 pushed, alarmed>>
evalVars    == <<ea_pc, ea_args, ea_ret>>
tremorVars  == <<prog, tremor, tpc>>
csvVars     == <<csv_exists, csv_lines, lpc, run, cycle, current_tremor, logged>>
refreshVars == <<auto_refresh, after_queue, since_refresh>>
kioskVars   == <<sensors, spc, sleep_left, current_page, loop_timer, hw, beeps,
                 upc, seen, shown>>
tableVars   == <<aq_pc, aq_arg, aq_ret>>
sideVars    == <<side, side_pc>>
coreVars    == <<volcanoVars, evalVars, tremorVars, csvVars>>
labVars     == <<refreshVars, kioskVars, tableVars, sideVars>>
vars        == <<coreVars, labVars>>

None == <<>>
Some(v) == <<v>>
Val(x) == x[1]
Opt(S) == {None} \cup {Some(v) : v \in S}

Max(a, b) == IF a >= b THEN a ELSE b
Min(a, b) == IF a <= b THEN a ELSE b

(***************************************************************************)
(* Volcano.py: evaluate_alert                                              *)
(***************************************************************************)

\* Python truthiness of a reading: None and 0 are false.
Truthy(x) == x # None /\ Val(x) # 0

\* `x and x >= threshold`
AtLeast(x, threshold) == Truthy(x) /\ Val(x) >= threshold

\* "; ".join(reasons), for a non-empty list
RECURSIVE Join(_)
Join(s) == IF Len(s) = 1 THEN s[1] ELSE s[1] \o "; " \o Join(Tail(s))

\* One `if cond: level = max(level, lv); reasons.append(msg)` statement.
Stage(acc, cond, lv, msg) ==
    IF cond THEN [level |-> Max(acc.level, lv), reasons |-> Append(acc.reasons, msg)]
            ELSE acc

\* A mutant of evaluate_alert: the level-2 tremor stage reads `> 0.15`.
evaluate_alert_strict(pm25, accel_mag, mq, tmp) ==
    LET s0  == [level |-> 0, reasons |-> <<>>]
        s1  == Stage(s0,  AtLeast(accel_mag, 50),   1, "Light tremor")
        s2  == Stage(s1,  AtLeast(mq, 1000),       1, "Slight gas rise")
        s3  == Stage(s2,  AtLeast(tmp, 450),        1, "Slight temperature increase")
        s4  == Stage(s3,  Truthy(accel_mag) /\ Val(accel_mag) > 150,   2, "Elevated tremor")
        s5  == Stage(s4,  AtLeast(mq, 1800),       2, "Moderate gas increase")
        s6  == Stage(s5,  AtLeast(tmp, 600),        2, "High temperature")
        s7  == Stage(s6,  AtLeast(accel_mag, 500),  3, "Strong tremor")
        s8  == Stage(s7,  AtLeast(pm25, 150),       3, "High ash emission")
        s9  == Stage(s8,  AtLeast(mq, 2500),       3, "High gas level")
        s10 == Stage(s9,  AtLeast(accel_mag, 1000), 4, "Very strong tremor")
        s11 == Stage(s10, AtLeast(pm25, 350),       4, "Hazardous ash emission")
        s12 == Stage(s11, AtLeast(accel_mag, 1500), 5, "Extreme tremor (eruption)")
        s13 == Stage(s12, AtLeast(pm25, 500),       5, "Extreme ash (eruption)")
        rs  == IF s13.reasons = <<>> THEN <<"Background levels">> ELSE s13.reasons
    IN  [level |-> s13.level, reason |-> Join(rs)]

\* A mutant of evaluate_alert: the background reason is never appended, so
\* the join of the empty list is returned.
evaluate_alert_nobackground(pm25, accel_mag, mq, tmp) ==
    LET s0  == [level |-> 0, reasons |-> <<>>]
        s1  == Stage(s0,  AtLeast(accel_mag, 50),   1, "Light tremor")
        s2  == Stage(s1,  AtLeast(mq, 1000),       1, "Slight gas rise")
        s3  == Stage(s2,  AtLeast(tmp, 450),        1, "Slight temperature increase")
        s4  == Stage(s3,  AtLeast(accel_mag, 150),  2, "Elevated tremor")
        s5  == Stage(s4,  AtLeast(mq, 1800),       2, "Moderate gas increase")
        s6  == Stage(s5,  AtLeast(tmp, 600),        2, "High temperature")
        s7  == Stage(s6,  AtLeast(accel_mag, 500),  3, "Strong tremor")
        s8  == Stage(s7,  AtLeast(pm25, 150),       3, "High ash emission")
        s9  == Stage(s8,  AtLeast(mq, 2500),       3, "High gas level")
        s10 == Stage(s9,  AtLeast(accel_mag, 1000), 4, "Very strong tremor")
        s11 == Stage(s10, AtLeast(pm25, 350),       4, "Hazardous ash emission")
        s12 == Stage(s11, AtLeast(accel_mag, 1500), 5, "Extreme tremor (eruption)")
        s13 == Stage(s12, AtLeast(pm25, 500),       5, "Extreme ash (eruption)")
    IN  [level |-> s13.level,
         reason |-> IF s13.reasons = <<>> THEN "" ELSE Join(s13.reasons)]

\* A mutant of evaluate_alert: the ash stages raise the level without
\* appending their reason.
evaluate_alert_silentash(pm25, accel_mag, mq, tmp) ==
    LET s0  == [level |-> 0, reasons |-> <<>>]
        s1  == Stage(s0,  AtLeast(accel_mag, 50),   1, "Light tremor")
        s2  == Stage(s1,  AtLeast(mq, 1000),       1, "Slight gas rise")
        s3  == Stage(s2,  AtLeast(tmp, 450),        1, "Slight temperature increase")
        s4  == Stage(s3,  AtLeast(accel_mag, 150),  2, "Elevated tremor")
        s5  == Stage(s4,  AtLeast(mq, 1800),       2, "Moderate gas increase")
        s6  == Stage(s5,  AtLeast(tmp, 600),        2, "High temperature")
        s7  == Stage(s6,  AtLeast(accel_mag, 500),  3, "Strong tremor")
        s9  == Stage(s7,  AtLeast(mq, 2500),       3, "High gas level")
        s10 == Stage(s9,  AtLeast(accel_mag, 1000), 4, "Very strong tremor")
        s12 == Stage(s10, AtLeast(accel_mag, 1500), 5, "Extreme tremor (eruption)")
        ash == IF AtLeast(pm25, 500) THEN 5
               ELSE IF AtLeast(pm25, 350) THEN 4
               ELSE IF AtLeast(pm25, 150) THEN 3 ELSE 0
        rs  == IF s12.reasons = <<>> THEN <<"Background levels">> ELSE s12.reasons
    IN  [level |-> Max(s12.level, ash), reason |-> Join(rs)]

\* evaluate_alert(pm25, accel_mag, mqv, temp=None): the fourteen staged `if`
\* statements in source order, then the background reason and the join.
evaluate_alert(pm25, accel_mag, mq, tmp) ==
    LET s0  == [level |-> 0, reasons |-> <<>>]
        \* Level 1: accel_mag >= 0.05, mqv >= 1.0, temp >= 45
        s1  == Stage(s0,  AtLeast(accel_mag, 50),   1, "Light tremor")
        s2  == Stage(s1,  AtLeast(mq, 1000),       1, "Slight gas rise")
        s3  == Stage(s2,  AtLeast(tmp, 450),        1, "Slight temperature increase")
        \* Level 2: accel_mag >= 0.15, mqv >= 1.8, temp >= 60
        s4  == Stage(s3,  AtLeast(accel_mag, 150),  2, "Elevated tremor")
        s5  == Stage(s4,  AtLeast(mq, 1800),       2, "Moderate gas increase")
        s6  == Stage(s5,  AtLeast(tmp, 600),        2, "High temperature")
        \* Level 3: accel_mag >= 0.5, pm25 >= 150, mqv >= 2.5
        s7  == Stage(s6,  AtLeast(accel_mag, 500),  3, "Strong tremor")
        s8  == Stage(s7,  AtLeast(pm25, 150),       3, "High ash emission")
        s9  == Stage(s8,  AtLeast(mq, 2500),       3, "High gas level")
        \* Level 4: accel_mag >= 1.0, pm25 >= 350
        s10 == Stage(s9,  AtLeast(accel_mag, 1000), 4, "Very strong tremor")
        s11 == Stage(s10, AtLeast(pm25, 350),       4, "Hazardous ash emission")
        \* Level 5: accel_mag >= 1.5, pm25 >= 500
        s12 == Stage(s11, AtLeast(accel_mag, 1500), 5, "Extreme tremor (eruption)")
        s13 == Stage(s12, AtLeast(pm25, 500),       5, "Extreme ash (eruption)")
        rs  == IF s13.reasons = <<>> THEN <<"Background levels">> ELSE s13.reasons
    IN  [level |-> s13.level, reason |-> Join(rs)]

(***************************************************************************)
(* evaluate_alert on its own: the arguments are drawn at the start, the    *)
(* call is one step.  The values straddle every threshold of the function, *)
(* and include None, zero and a negative reading.                          *)
(***************************************************************************)
AccelValues == Opt({-20, 0, 49, 50, 149, 150, 499, 500, 999, 1000, 1499, 1500, 2000})
MqvValues   == Opt({0, 999, 1000, 1799, 1800, 2499, 2500, 3300})
TempValues  == Opt({-50, 0, 449, 450, 599, 600, 800})
Pm25Values  == Opt({0, 149, 150, 349, 350, 499, 500, 1000})

NoArgs == [pm25 |-> None, accel_mag |-> None, mqv |-> None, temp |-> None]
NoResult == [level |-> -1, reason |-> ""]

EvalIdle == ea_pc = "idle" /\ ea_args = NoArgs /\ ea_ret = NoResult

EvalInit ==
    /\ ea_args \in [pm25 : Pm25Values, accel_mag : AccelValues,
                    mqv : MqvValues, temp : TempValues]
    /\ ea_pc = "call"
    /\ ea_ret = NoResult

CallEvaluateAlert ==
    /\ ea_pc = "call"
    /\ ea_pc' = "returned"
    /\ ea_ret' = evaluate_alert(ea_args.pm25, ea_args.accel_mag, ea_args.mqv, ea_args.temp)
    /\ UNCHANGED <<ea_args, volcanoVars, tremorVars, csvVars, labVars>>

(***************************************************************************)
(* Volcano.py: the hardware found at import time                           *)
(***************************************************************************)
BEACON_PIN == 22
SIREN_PIN  == 25

\* Each guarded import / initialisation either succeeds or clears its flag.
\* GPIO.setup is tried per pin and a failure is only printed; GPIO.PWM on any
\* of the three RGB pins failing leaves pwm_r = pwm_g = pwm_b = None.
\* Without GPIO there is no PWM object and no configured pin.
HardwareInit ==
    /\ FIREBASE_AVAILABLE \in BOOLEAN
    /\ DHT_AVAILABLE \in BOOLEAN
    /\ PMS_AVAILABLE \in BOOLEAN
    /\ MPU_AVAILABLE \in BOOLEAN
    /\ ADS_AVAILABLE \in BOOLEAN
    /\ GPIO_AVAILABLE \in BOOLEAN
    /\ pwm_r \in (IF GPIO_AVAILABLE THEN {"None", "PWM"} ELSE {"None"})
    /\ outPins \in (IF GPIO_AVAILABLE THEN SUBSET {BEACON_PIN, SIREN_PIN} ELSE {{}})

\* GPIO.output(pin, GPIO.LOW) on every configured pin, pwm.start(0)
OutputsOff == [rgb |-> <<0, 0, 0>>, beacon |-> FALSE, siren |-> FALSE]

(***************************************************************************)
(* Volcano.py: sensor read helpers.  `env` is what the device does on this *)
(* call: <<"raise">> (the driver throws) or <<"ok", value>>.               *)
(***************************************************************************)
DhtEnv   == {<<"raise">>, <<"ok", <<305, 650>>>>}
\* <<"badframe">>: fewer than 32 bytes, or not starting 0x42 0x4d
PmsEnv   == {<<"raise">>, <<"badframe">>, <<"ok", <<5, 8, 10>>>>,
             <<"ok", <<90, 150, 200>>>>, <<"ok", <<300, 500, 600>>>>}
MpuEnv   == {<<"raise">>, <<"ok", 0>>, <<"ok", 50>>, <<"ok", 150>>, <<"ok", 1000>>}
Mq135Env == {<<"raise">>, <<"ok", 400>>, <<"ok", 1800>>}

\* A mutant of read_mq135_voltage: a simulated voltage when the ADC is
\* missing, as the other labs fall back to simulated data.
read_mq135_voltage_simulated(env) ==
    IF ~ADS_AVAILABLE THEN Some(1800)
    ELSE IF env[1] = "raise" THEN None
    ELSE Some(env[2])

read_dht22(env) ==
    IF ~DHT_AVAILABLE THEN <<None, None>>
    ELSE IF env[1] = "raise" THEN <<None, None>>
    ELSE <<Some(env[2][1]), Some(env[2][2])>>

\* (pm1, pm25, pm10), or None: no port, a short or misframed read, an exception
read_pms7003(env) ==
    IF ~PMS_AVAILABLE THEN None
    ELSE IF env[1] = "raise" THEN None
    ELSE IF env[1] = "badframe" THEN None
    ELSE Some(env[2])

read_mpu_accel_mag(env) ==
    IF ~MPU_AVAILABLE THEN None
    ELSE IF env[1] = "raise" THEN None
    ELSE Some(env[2])

read_mq135_voltage(env) ==
    IF ~ADS_AVAILABLE THEN None
    ELSE IF env[1] = "raise" THEN None
    ELSE Some(env[2])

(***************************************************************************)
(* Volcano.py: actuator helpers.  `o` is the output state before the call; *)
(* the result is the output state after it.  GPIO.output raises for a pin  *)
(* GPIO.setup did not configure, and the helper swallows the exception.    *)
(***************************************************************************)
Duty(v) == Max(0, Min(100, v))

rgb_set_color(o, r, g, b) ==
    IF ~GPIO_AVAILABLE \/ pwm_r = "None" THEN o
    ELSE [o EXCEPT !.rgb = <<Duty(r), Duty(g), Duty(b)>>]

beacon_on(o, state) ==
    IF ~GPIO_AVAILABLE THEN o
    ELSE IF BEACON_PIN \notin outPins THEN o
    ELSE [o EXCEPT !.beacon = state]

\* A mutant of siren_on: the relay is only ever switched on.
siren_on_only(o, state) ==
    IF ~GPIO_AVAILABLE THEN o
    ELSE IF SIREN_PIN \notin outPins THEN o
    ELSE [o EXCEPT !.siren = o.siren \/ state]

siren_on(o, state) ==
    IF ~GPIO_AVAILABLE THEN o
    ELSE IF SIREN_PIN \notin outPins THEN o
    ELSE [o EXCEPT !.siren = state]

\* A mutant of ActuateOutputs: level 1 sounds the siren and leaves the
\* beacon alone.
ActuateOutputsSirenFirst(lv, o) ==
    IF lv = 0 THEN siren_on(beacon_on(rgb_set_color(o, 20, 80, 20), FALSE), FALSE)
    ELSE IF lv = 1 THEN siren_on(rgb_set_color(o, 80, 80, 20), TRUE)
    ELSE IF lv = 2 THEN siren_on(beacon_on(rgb_set_color(o, 90, 40, 0), TRUE), TRUE)
    ELSE siren_on(beacon_on(rgb_set_color(o, 100, 0, 0), TRUE), TRUE)

\* main_loop's `if level == 0: ... elif level == 1: ... elif level == 2: ... else:`
ActuateOutputs(lv, o) ==
    IF lv = 0 THEN siren_on(beacon_on(rgb_set_color(o, 20, 80, 20), FALSE), FALSE)
    ELSE IF lv = 1 THEN siren_on(beacon_on(rgb_set_color(o, 80, 80, 20), TRUE), FALSE)
    ELSE IF lv = 2 THEN siren_on(beacon_on(rgb_set_color(o, 90, 40, 0), TRUE), TRUE)
    ELSE siren_on(beacon_on(rgb_set_color(o, 100, 0, 0), TRUE), TRUE)

(***************************************************************************)
(* Volcano.py: firebase_log.  `push` is what fb_ref.push does on this      *)
(* call: "ok" (it returns) or "raise".  The result says what the function  *)
(* returned, what the push did ("not called" when it was not reached), and *)
(* whether the function itself raised.                                     *)
(***************************************************************************)
PushEnv == {"ok", "raise"}

\* A mutant of firebase_log: no try / except around the push.
firebase_log_uncaught(push) ==
    IF ~FIREBASE_AVAILABLE THEN [ret |-> FALSE, push |-> "not called", raised |-> FALSE]
    ELSE IF push = "ok" THEN [ret |-> TRUE, push |-> "ok", raised |-> FALSE]
    ELSE [ret |-> FALSE, push |-> "raise", raised |-> TRUE]

firebase_log(push) ==
    IF ~FIREBASE_AVAILABLE THEN [ret |-> FALSE, push |-> "not called", raised |-> FALSE]
    ELSE IF push = "ok" THEN [ret |-> TRUE, push |-> "ok", raised |-> FALSE]
    ELSE [ret |-> FALSE, push |-> "raise", raised |-> FALSE]

(***************************************************************************)
(* Volcano.py: main_loop, one action per step of a cycle                   *)
(*   pc: "read" -> "alert" -> "actuate" -> "log" -> "sleep" -> "read"      *)
(*       "stopped" after Ctrl-C, "crashed" after an uncaught exception     *)
(* level, reason and fb_ok are unbound until their first assignment:       *)
(* -1, "" and FALSE stand for that.                                        *)
(***************************************************************************)
hardware == <<FIREBASE_AVAILABLE, DHT_AVAILABLE, PMS_AVAILABLE, MPU_AVAILABLE,
              ADS_AVAILABLE, GPIO_AVAILABLE, pwm_r, outPins>>
readings == <<temp, hum, pm, accel, mqv>>

VolcanoIdle ==
    /\ FIREBASE_AVAILABLE = FALSE /\ DHT_AVAILABLE = FALSE /\ PMS_AVAILABLE = FALSE
    /\ MPU_AVAILABLE = FALSE /\ ADS_AVAILABLE = FALSE /\ GPIO_AVAILABLE = FALSE
    /\ pwm_r = "None" /\ outPins = {} /\ out = OutputsOff
    /\ pc = "idle" /\ temp = None /\ hum = None /\ pm = <<None, None, None>>
    /\ accel = None /\ mqv = None /\ level = -1 /\ reason = ""
    /\ fb_ok = FALSE /\ pushed = "not called" /\ alarmed = FALSE

VolcanoInit ==
    /\ HardwareInit
    /\ out = OutputsOff
    /\ pc = "read"
    /\ temp = None /\ hum = None /\ pm = <<None, None, None>>
    /\ accel = None /\ mqv = None
    /\ level = -1 /\ reason = "" /\ fb_ok = FALSE /\ pushed = "not called" /\ alarmed = FALSE

\* temp, hum = read_dht22(); pms = read_pms7003(); if pms: ... else: ...;
\* accel = read_mpu_accel_mag(); mqv = read_mq135_voltage()
ReadSensors ==
    /\ pc = "read"
    /\ \E d \in DhtEnv, p \in PmsEnv, a \in MpuEnv, q \in Mq135Env :
         LET th  == read_dht22(d)
             pms == read_pms7003(p)
         IN  /\ temp' = th[1]
             /\ hum' = th[2]
             /\ pm' = IF pms # None
                      THEN <<Some(Val(pms)[1]), Some(Val(pms)[2]), Some(Val(pms)[3])>>
                      ELSE <<None, None, None>>
             /\ accel' = read_mpu_accel_mag(a)
             /\ mqv' = read_mq135_voltage(q)
    /\ pc' = "alert"
    /\ UNCHANGED <<hardware, out, level, reason, fb_ok, pushed, alarmed,
                   evalVars, tremorVars, csvVars, labVars>>

\* level, reason = evaluate_alert(pm25, accel, mqv)      (temp is not passed)
DetermineAlert ==
    /\ pc = "alert"
    /\ LET r == evaluate_alert(pm[2], accel, mqv, None)
       IN  level' = r.level /\ reason' = r.reason
    /\ pc' = "actuate"
    /\ UNCHANGED <<hardware, out, readings, fb_ok, pushed, alarmed,
                   evalVars, tremorVars, csvVars, labVars>>

Actuate ==
    /\ pc = "actuate"
    /\ out' = ActuateOutputs(level, out)
    /\ pc' = "log"
    /\ UNCHANGED <<hardware, readings, level, reason, fb_ok, pushed, alarmed,
                   evalVars, tremorVars, csvVars, labVars>>

\* The `finally:` block: pwm stop and GPIO.cleanup() release every output.
Cleanup(o) == IF GPIO_AVAILABLE THEN OutputsOff ELSE o

\* fb_ok = firebase_log(payload); an exception out of it would leave the loop
\* through `finally`.
FirebasePush ==
    /\ pc = "log"
    /\ \E push \in PushEnv :
         LET r == firebase_log(push)
         IN  /\ pushed' = r.push
             /\ IF r.raised
                THEN /\ pc' = "crashed"
                     /\ out' = Cleanup(out)
                     /\ UNCHANGED fb_ok
                ELSE /\ pc' = "sleep"
                     /\ fb_ok' = r.ret
                     /\ UNCHANGED out
    /\ UNCHANGED <<hardware, readings, level, reason, alarmed,
                   evalVars, tremorVars, csvVars, labVars>>

\* time.sleep(interval), then the next iteration of `while True`
Sleep ==
    /\ pc = "sleep"
    /\ pc' = "read"
    /\ alarmed' = (alarmed \/ level >= 1)
    /\ UNCHANGED <<hardware, out, readings, level, reason, fb_ok, pushed,
                   evalVars, tremorVars, csvVars, labVars>>

\* Ctrl-C at any point of the loop: except KeyboardInterrupt, then finally.
KeyboardInterrupt ==
    /\ pc \in {"read", "alert", "actuate", "log", "sleep"}
    /\ pc' = "stopped"
    /\ out' = Cleanup(out)
    /\ UNCHANGED <<hardware, readings, level, reason, fb_ok, pushed, alarmed,
                   evalVars, tremorVars, csvVars, labVars>>

(***************************************************************************)
(* lab6.py, lab6_2.py, lab8.py: the simulated tremor                       *)
(*                                                                         *)
(* previous_tremor is a multiple of 0.001 (the start value 0.01 and every  *)
(* result of round(x, 3)), here k thousandths.                             *)
(*   round(previous + 0.02, 3)  is  k + 20 thousandths.                    *)
(*   round(previous * 0.8, 3)   is  4k/5 rounded to the nearest integer;   *)
(*       4k/5 has fractional part 0, .2, .4, .6 or .8, never .5, so it is  *)
(*       (4k + 2) \div 5.                                                  *)
(***************************************************************************)
TREMOR_BASELINE == 10     \* current_tremor = 0.01
TREMOR_MAX      == 100    \* min(tremor, 0.10)
TREMOR_MIN      == 1      \* max(tremor, 0.001)

RoundSpike(k) == k + 20
RoundDecay(k) == (4 * k + 2) \div 5

\* A mutant of calculate_tremor: the spike is not capped.
calculate_tremor_uncapped(sound_detected, previous_tremor) ==
    IF sound_detected
    THEN RoundSpike(previous_tremor)
    ELSE Max(RoundDecay(previous_tremor), TREMOR_MIN)

\* lab6.calculate_tremor
calculate_tremor(sound_detected, previous_tremor) ==
    IF sound_detected
    THEN Min(RoundSpike(previous_tremor), TREMOR_MAX)
    ELSE Max(RoundDecay(previous_tremor), TREMOR_MIN)

\* lab6_2.calculate_tremor
lab6_2_calculate_tremor(sound_detected, previous_tremor) ==
    IF sound_detected
    THEN Min(RoundSpike(previous_tremor), TREMOR_MAX)
    ELSE Max(RoundDecay(previous_tremor), TREMOR_MIN)

\* lab8.SensorHandler._calculate_derived_values, the update of self.tremor
lab8_calculate_derived_tremor(sound_detected, self_tremor) ==
    IF sound_detected
    THEN LET trem == RoundSpike(self_tremor) IN Min(trem, TREMOR_MAX)
    ELSE LET trem == RoundDecay(self_tremor) IN Max(trem, TREMOR_MIN)

Programs == {"lab6", "lab6_2", "lab8"}

TremorIdle == prog = "none" /\ tremor = TREMOR_BASELINE /\ tpc = "idle"

\* current_tremor = 0.01 (lab6, lab6_2 main) / self.tremor = 0.01 (lab8)
TremorInit ==
    /\ prog \in Programs
    /\ tremor = TREMOR_BASELINE
    /\ tpc = "cycle"

\* lab6 main: current_tremor = read_and_log_data(current_tremor)
Lab6Cycle(sound_detected) ==
    /\ prog = "lab6" /\ tpc = "cycle"
    /\ tremor' = calculate_tremor(sound_detected, tremor)
    /\ tpc' = "sleep"
    /\ UNCHANGED <<prog, volcanoVars, evalVars, csvVars, labVars>>

\* lab6_2 main: current_tremor = read_and_log_data(current_tremor)
Lab6_2Cycle(sound_detected) ==
    /\ prog = "lab6_2" /\ tpc = "cycle"
    /\ tremor' = lab6_2_calculate_tremor(sound_detected, tremor)
    /\ tpc' = "sleep"
    /\ UNCHANGED <<prog, volcanoVars, evalVars, csvVars, labVars>>

\* lab8 _read_loop: self._read_sensors(); self._calculate_derived_values()
Lab8Cycle(sound_detected) ==
    /\ prog = "lab8" /\ tpc = "cycle"
    /\ tremor' = lab8_calculate_derived_tremor(sound_detected, tremor)
    /\ tpc' = "sleep"
    /\ UNCHANGED <<prog, volcanoVars, evalVars, csvVars, labVars>>

\* time.sleep(LOG_INTERVAL) / time.sleep(3), then the next iteration
TremorSleep ==
    /\ tpc = "sleep"
    /\ tpc' = "cycle"
    /\ UNCHANGED <<prog, tremor, volcanoVars, evalVars, csvVars, labVars>>

(***************************************************************************)
(* lab6.py: runs of the logger over sensor_data.csv                        *)
(*                                                                         *)
(* The file is the sequence of its lines, each line the tuple of its       *)
(* fields, all strings.  Temperature and humidity are the DHT11's whole   *)
(* degrees and percent, pm25 is in ug/m3, the tremor in 0.001 m/s2.        *)
(* The clock moves on between any two cycles.                              *)
(***************************************************************************)
MaxRuns == 3      \* runs of lab6.py started one after the other
MaxRows == 4      \* logging cycles over all the runs

fieldnames == <<"Timestamp", "Temperature_C", "Humidity_%", "Sound_Detected",
                "Simulated_PM25", "Simulated_Tremor_ms2", "Air_Quality_Status",
                "Tremor_Status">>

\* lab6.calculate_pm25
calculate_pm25(t, humidity) ==
    IF t = None \/ humidity = None THEN None
    ELSE Some(Max(0, Min(500, (Val(t) * 5) + ((100 - Val(humidity)) * 3))))

\* lab6.get_air_quality_status
get_air_quality_status(pm25) ==
    IF pm25 = None THEN "UNKNOWN"
    ELSE IF Val(pm25) <= 50 THEN "SAFE"
    ELSE IF Val(pm25) <= 150 THEN "MODERATE"
    ELSE IF Val(pm25) <= 250 THEN "UNHEALTHY"
    ELSE IF Val(pm25) <= 350 THEN "VERY_UNHEALTHY"
    ELSE "HAZARDOUS"

\* lab6.get_tremor_status
get_tremor_status(t) ==
    IF t = None THEN "UNKNOWN"
    ELSE IF Val(t) < 10 THEN "NORMAL"
    ELSE IF Val(t) < 20 THEN "MINOR"
    ELSE IF Val(t) < 50 THEN "MODERATE"
    ELSE "STRONG"

\* What the DHT11 does on a read: RuntimeError, or (temperature, humidity)
Dht11Env == {<<"RuntimeError">>, <<"ok", <<28, 70>>>>}

\* f"{x:.1f}" of a whole number, f"{tremor:.3f}" of k thousandths (k < 1000)
Format1f(x) == ToString(x) \o ".0"
Format3f(k) ==
    "0." \o (IF k < 10 THEN "00" ELSE IF k < 100 THEN "0" ELSE "") \o ToString(k)

\* datetime.now().strftime(...): the clock reading of cycle c of run r
Timestamp(r, c) == "run" \o ToString(r) \o " cycle" \o ToString(c)

\* The data_row of read_and_log_data, in the order of its keys
data_row(timestamp, dht, sound_detected, previous_tremor) ==
    LET temperature == IF dht[1] = "RuntimeError" THEN None ELSE Some(dht[2][1])
        humidity    == IF dht[1] = "RuntimeError" THEN None ELSE Some(dht[2][2])
        pm25        == calculate_pm25(temperature, humidity)
        trem        == calculate_tremor(sound_detected, previous_tremor)
    IN  << timestamp,
           IF Truthy(temperature) THEN Format1f(Val(temperature)) ELSE "N/A",
           IF Truthy(humidity) THEN Format1f(Val(humidity)) ELSE "N/A",
           IF sound_detected THEN "YES" ELSE "NO",
           IF Truthy(pm25) THEN Format1f(Val(pm25)) ELSE "N/A",
           Format3f(trem),
           get_air_quality_status(pm25),
           get_tremor_status(Some(trem)) >>

\* A mutant of initialize_csv: the header is written on every start.
initialize_csv_always(file_exists, lines) == Append(lines, fieldnames)

\* initialize_csv: open(CSV_FILE, 'a') keeps what the file holds (and creates
\* it when missing); the header is written only if the file was not there.
initialize_csv(file_exists, lines) ==
    IF ~file_exists THEN Append(lines, fieldnames) ELSE lines

CsvIdle ==
    /\ csv_exists = FALSE /\ csv_lines = <<>> /\ lpc = "idle"
    /\ run = 0 /\ cycle = 0 /\ current_tremor = TREMOR_BASELINE /\ logged = <<>>

\* A directory without sensor_data.csv, lab6.py not running
CsvInit ==
    /\ csv_exists = FALSE /\ csv_lines = <<>> /\ lpc = "off"
    /\ run = 0 /\ cycle = 0 /\ current_tremor = TREMOR_BASELINE /\ logged = <<>>

\* python3 lab6.py: main() up to the call of initialize_csv
StartRun ==
    /\ lpc = "off"
    /\ run < MaxRuns
    /\ run' = run + 1
    /\ cycle' = 0
    /\ lpc' = "init"
    /\ UNCHANGED <<csv_exists, csv_lines, current_tremor, logged,
                   volcanoVars, evalVars, tremorVars, labVars>>

\* initialize_csv(); current_tremor = 0.01
InitializeCsv ==
    /\ lpc = "init"
    /\ csv_lines' = initialize_csv(csv_exists, csv_lines)
    /\ csv_exists' = TRUE
    /\ current_tremor' = TREMOR_BASELINE
    /\ lpc' = "loop"
    /\ UNCHANGED <<run, cycle, logged, volcanoVars, evalVars, tremorVars, labVars>>

\* current_tremor = read_and_log_data(current_tremor); time.sleep(LOG_INTERVAL)
\* The row is appended through open(CSV_FILE, 'a').
ReadAndLogData ==
    /\ lpc = "loop"
    /\ Len(csv_lines) <= MaxRows
    /\ \E dht \in Dht11Env, sound_detected \in BOOLEAN :
         LET row == data_row(Timestamp(run, cycle + 1), dht, sound_detected, current_tremor)
         IN  /\ csv_lines' = Append(csv_lines, row)
             /\ current_tremor' = calculate_tremor(sound_detected, current_tremor)
    /\ cycle' = cycle + 1
    /\ logged' = Append(logged, <<run, cycle + 1>>)
    /\ UNCHANGED <<csv_exists, lpc, run, volcanoVars, evalVars, tremorVars, labVars>>

\* Ctrl-C (or an exception other than RuntimeError out of the DHT11 read)
\* between two cycles: the run ends.
StopRun ==
    /\ lpc = "loop"
    /\ lpc' = "off"
    /\ UNCHANGED <<csv_exists, csv_lines, run, cycle, current_tremor, logged,
                   volcanoVars, evalVars, tremorVars, labVars>>

(***************************************************************************)
(* lab7.py: AshfallDataViewer's auto-refresh                               *)
(*                                                                         *)
(* Time is counted in seconds.  Tk runs one callback at a time, and a      *)
(* callback that is due runs before the clock moves on.  Every callback    *)
(* is scheduled 5000 ms ahead, so the pending ones are due in the order    *)
(* they were scheduled.  Nothing in lab7.py calls after_cancel.            *)
(***************************************************************************)
MaxPending == 3

\* self.root.after(5000, self.auto_refresh_loop)
REFRESH_SECONDS == 5

\* __init__: self.auto_refresh = tk.BooleanVar(value=False); nothing is scheduled
RefreshInit ==
    /\ auto_refresh = FALSE
    /\ after_queue = <<>>
    /\ since_refresh = REFRESH_SECONDS

\* auto_refresh_loop, given what self.auto_refresh.get() returns and the
\* callbacks still pending: refresh_data(), then root.after(5000, ...)
auto_refresh_loop(enabled, pending) ==
    IF enabled
    THEN [after_queue |-> Append(pending, REFRESH_SECONDS), refreshed |-> TRUE]
    ELSE [after_queue |-> pending, refreshed |-> FALSE]

\* A click on the "Auto-refresh (5s)" Checkbutton: Tk flips the BooleanVar,
\* then runs command=self.toggle_auto_refresh
ToggleAutoRefresh ==
    /\ ~auto_refresh => Len(after_queue) < MaxPending
    /\ auto_refresh' = ~auto_refresh
    /\ LET r == auto_refresh_loop(auto_refresh', after_queue)
       IN  /\ after_queue' = r.after_queue
           /\ since_refresh' = IF r.refreshed THEN 0 ELSE since_refresh
    /\ UNCHANGED <<coreVars, kioskVars, tableVars, sideVars>>

\* The callback at the head of the queue is due: Tk runs auto_refresh_loop
AutoRefreshLoop ==
    /\ after_queue # <<>>
    /\ Head(after_queue) = 0
    /\ LET r == auto_refresh_loop(auto_refresh, Tail(after_queue))
       IN  /\ after_queue' = r.after_queue
           /\ since_refresh' = IF r.refreshed THEN 0 ELSE since_refresh
    /\ UNCHANGED <<auto_refresh, coreVars, kioskVars, tableVars, sideVars>>

\* One second passes in root.mainloop() with no callback due
RefreshTick ==
    /\ \A i \in 1..Len(after_queue) : after_queue[i] > 0
    /\ after_queue' = [i \in 1..Len(after_queue) |-> after_queue[i] - 1]
    /\ since_refresh' = Min(since_refresh + 1, REFRESH_SECONDS)
    /\ UNCHANGED <<auto_refresh, coreVars, kioskVars, tableVars, sideVars>>

(***************************************************************************)
(* lab8.py: the kiosk's sensor thread and Tk callbacks                     *)
(*                                                                         *)
(* pm25 is in ug/m3; the sampled values are whole numbers, which the       *)
(* dashboard's "{pm25:.0f}" displays unchanged.                            *)
(***************************************************************************)
\* SensorHandler.__init__
SensorHandlerInit ==
    [soil_is_dry |-> FALSE, sound_detected |-> FALSE, ash_level |-> "UNKNOWN",
     pm25 |-> None, tremor |-> TREMOR_BASELINE, read_count |-> 0]

HwOff == [rgb |-> "off", beacon |-> "off"]
NothingSeen == [pm25 |-> None, ash_level |-> ""]

\* build_page: the PM2.5 card's StringVars and ash_level_var before update_data
Loading == [pm25 |-> None, status |-> "Loading...", ash_level |-> "Loading..."]

KioskIdle ==
    /\ sensors = SensorHandlerInit /\ spc = "off" /\ sleep_left = 0
    /\ current_page = "off" /\ loop_timer = 0 /\ hw = HwOff /\ beeps = 0
    /\ upc = "off" /\ seen = NothingSeen /\ shown = Loading

MaxReads == 11

\* time.sleep(3) in _read_loop
SENSOR_SLEEP == 3
\* self.root.after(1000, self.update_loop)
LOOP_SECONDS == 1
\* if self.sensors.read_count % 10 == 0
BEEP_EVERY == 10

\* round(400 + random.uniform(0, 100), 1) and round(random.uniform(0, 50), 1):
\* the ends of the two ranges
Pm25Dry == {400, 500}
Pm25Wet == {0, 50}

\* lab8.SensorHandler.get_air_quality_status, the status of the pair it returns
lab8_get_air_quality_status(pm25) ==
    IF pm25 = None THEN "UNKNOWN"
    ELSE IF Val(pm25) <= 50 THEN "SAFE"
    ELSE IF Val(pm25) <= 150 THEN "MODERATE"
    ELSE IF Val(pm25) <= 250 THEN "UNHEALTHY"
    ELSE "HAZARDOUS"

\* HardwareController.set_rgb_color with the RGB LED present
set_rgb_color(rgb, status) ==
    IF status = "SAFE" THEN "green"
    ELSE IF status = "MODERATE" THEN "yellow"
    ELSE IF status = "UNHEALTHY" THEN "orange"
    ELSE IF status = "HAZARDOUS" THEN "red"
    ELSE "off"

\* HardwareController.set_beacon with the beacon LED present
set_beacon(state, blink) ==
    IF state /\ blink THEN "blink" ELSE IF state THEN "on" ELSE "off"

\* AshfallKiosk.__init__ with the outputs present: show_dashboard() has built
\* the page and run the first update_data (pm25 is None, ash_level "UNKNOWN"),
\* sensors.start() has started the thread, update_loop() is about to be called
KioskInit ==
    /\ sensors = SensorHandlerInit /\ spc = "read" /\ sleep_left = 0
    /\ current_page = "dashboard" /\ loop_timer = 0 /\ hw = HwOff /\ beeps = 0
    /\ upc = "idle" /\ seen = NothingSeen
    /\ shown = [Loading EXCEPT !.ash_level = "UNKNOWN"]

\* _read_loop: self._read_sensors(), the sound and soil inputs of this cycle
\* (GPIO.input, or random in simulation mode)
SensorRead(limit) ==
    /\ spc = "read"
    /\ sensors.read_count < limit
    /\ \E sound \in BOOLEAN, soil \in BOOLEAN :
          sensors' = [sensors EXCEPT !.sound_detected = sound, !.soil_is_dry = soil]
    /\ spc' = "pm25"
    /\ UNCHANGED <<sleep_left, current_page, loop_timer, hw, beeps, upc, seen, shown,
                   coreVars, refreshVars, tableVars, sideVars>>

\* _calculate_derived_values: self.pm25 = ...  (soil_is_dry is never None)
CalcPm25 ==
    /\ spc = "pm25"
    /\ \E v \in (IF sensors.soil_is_dry THEN Pm25Dry ELSE Pm25Wet) :
          sensors' = [sensors EXCEPT !.pm25 = Some(v)]
    /\ spc' = "ash"
    /\ UNCHANGED <<sleep_left, current_page, loop_timer, hw, beeps, upc, seen, shown,
                   coreVars, refreshVars, tableVars, sideVars>>

\* _calculate_derived_values: self.ash_level = ...
CalcAsh ==
    /\ spc = "ash"
    /\ sensors' = [sensors EXCEPT
                     !.ash_level = IF sensors.soil_is_dry THEN "HEAVY" ELSE "NONE"]
    /\ spc' = "tremor"
    /\ UNCHANGED <<sleep_left, current_page, loop_timer, hw, beeps, upc, seen, shown,
                   coreVars, refreshVars, tableVars, sideVars>>

\* _calculate_derived_values: self.tremor = ...
CalcTremor ==
    /\ spc = "tremor"
    /\ sensors' = [sensors EXCEPT
                     !.tremor = lab8_calculate_derived_tremor(sensors.sound_detected,
                                                              sensors.tremor)]
    /\ spc' = "count"
    /\ UNCHANGED <<sleep_left, current_page, loop_timer, hw, beeps, upc, seen, shown,
                   coreVars, refreshVars, tableVars, sideVars>>

\* _read_loop: self._log_data(); self.read_count += 1; ...; time.sleep(3)
\* (the log files are not part of the state)
CountRead ==
    /\ spc = "count"
    /\ sensors' = [sensors EXCEPT !.read_count = sensors.read_count + 1]
    /\ beeps' = 0
    /\ spc' = "sleep"
    /\ sleep_left' = SENSOR_SLEEP
    /\ UNCHANGED <<current_page, loop_timer, hw, upc, seen, shown,
                   coreVars, refreshVars, tableVars, sideVars>>

\* time.sleep(3) returns, `while self.running` goes round
SensorWake ==
    /\ spc = "sleep"
    /\ sleep_left = 0
    /\ spc' = "read"
    /\ UNCHANGED <<sensors, sleep_left, current_page, loop_timer, hw, beeps, upc, seen,
                   shown, coreVars, refreshVars, tableVars, sideVars>>

\* AshfallKiosk.update_loop, called by __init__ and then by root.after
UpdateLoop ==
    /\ loop_timer = 0
    /\ current_page # "off"
    /\ IF current_page = "dashboard"
       THEN LET status == lab8_get_air_quality_status(sensors.pm25)
                hazard == status = "HAZARDOUS" \/ sensors.tremor > 50
            IN  /\ hw' = [rgb |-> set_rgb_color(hw.rgb, status),
                          beacon |-> IF hazard THEN set_beacon(TRUE, TRUE)
                                     ELSE IF status \in {"UNHEALTHY", "VERY_UNHEALTHY"}
                                     THEN set_beacon(TRUE, FALSE)
                                     ELSE set_beacon(FALSE, FALSE)]
                /\ beeps' = IF hazard /\ sensors.read_count % BEEP_EVERY = 0
                            THEN beeps + 1 ELSE beeps
       ELSE UNCHANGED <<hw, beeps>>
    /\ loop_timer' = LOOP_SECONDS
    /\ UNCHANGED <<sensors, spc, sleep_left, current_page, upc, seen, shown,
                   coreVars, refreshVars, tableVars, sideVars>>

\* One second passes: the sensor thread is in time.sleep and no Tk callback is due
KioskTick ==
    /\ spc = "sleep" /\ sleep_left > 0
    /\ loop_timer > 0
    /\ sleep_left' = sleep_left - 1
    /\ loop_timer' = loop_timer - 1
    /\ UNCHANGED <<sensors, spc, current_page, hw, beeps, upc, seen, shown,
                   coreVars, refreshVars, tableVars, sideVars>>

MaxDashReads == 2

\* A second of the sensor thread's time.sleep(3) passes; DashboardPage's own
\* timer is not measured: the 2-second Tk timer and the 3-second sleep (plus the
\* time a read takes) drift, so update_data may start at any point of a cycle
SensorSleeps ==
    /\ spc = "sleep"
    /\ sleep_left > 0
    /\ sleep_left' = sleep_left - 1
    /\ UNCHANGED <<sensors, spc, current_page, loop_timer, hw, beeps, upc, seen, shown,
                   coreVars, refreshVars, tableVars, sideVars>>

\* update_data: pm25 = self.app.sensors.pm25
UpdateDataReadPm25 ==
    /\ upc = "idle"
    /\ seen' = [seen EXCEPT !.pm25 = sensors.pm25]
    /\ upc' = "ash"
    /\ UNCHANGED <<sensors, spc, sleep_left, current_page, loop_timer, hw, beeps, shown,
                   coreVars, refreshVars, tableVars, sideVars>>

\* update_data: ash_level = self.app.sensors.ash_level
UpdateDataReadAsh ==
    /\ upc = "ash"
    /\ seen' = [seen EXCEPT !.ash_level = sensors.ash_level]
    /\ upc' = "show"
    /\ UNCHANGED <<sensors, spc, sleep_left, current_page, loop_timer, hw, beeps, shown,
                   coreVars, refreshVars, tableVars, sideVars>>

\* update_data: the PM2.5 card (value from the local, status from
\* self.app.sensors.get_air_quality_status(), which reads self.pm25 again),
\* the ash label, then self.parent.after(2000, self.update_data)
UpdateDataShow ==
    /\ upc = "show"
    /\ shown' = [pm25      |-> IF seen.pm25 # None THEN seen.pm25 ELSE shown.pm25,
                 status    |-> IF seen.pm25 # None
                               THEN lab8_get_air_quality_status(sensors.pm25)
                               ELSE shown.status,
                 ash_level |-> seen.ash_level]
    /\ upc' = "idle"
    /\ UNCHANGED <<sensors, spc, sleep_left, current_page, loop_timer, hw, beeps, seen,
                   coreVars, refreshVars, tableVars, sideVars>>

(***************************************************************************)
(* The air-quality status tables of lab6, lab6_2, lab8 and lab8try         *)
(***************************************************************************)
TablePrograms == {"lab6", "lab6_2", "lab8", "lab8try"}

NoStatuses == [p \in TablePrograms |-> ""]

TableIdle == aq_pc = "idle" /\ aq_arg = 0 /\ aq_ret = NoStatuses

MaxPm25 == 500

\* lab6_2.get_air_quality_status
lab6_2_get_air_quality_status(pm25) ==
    IF pm25 = None THEN "UNKNOWN"
    ELSE IF Val(pm25) <= 50 THEN "SAFE"
    ELSE IF Val(pm25) <= 150 THEN "MODERATE"
    ELSE IF Val(pm25) <= 250 THEN "UNHEALTHY"
    ELSE IF Val(pm25) <= 350 THEN "VERY_UNHEALTHY"
    ELSE "HAZARDOUS"

\* lab8try.get_air_quality, which takes a number
lab8try_get_air_quality(pm25) ==
    IF pm25 <= 50 THEN "SAFE"
    ELSE IF pm25 <= 150 THEN "MODERATE"
    ELSE IF pm25 <= 250 THEN "UNHEALTHY"
    ELSE IF pm25 <= 350 THEN "VERY UNHEALTHY"
    ELSE "HAZARDOUS"

\* A PM2.5 value in ug/m3 to classify
TableInit ==
    /\ aq_arg \in 0..MaxPm25
    /\ aq_pc = "call"
    /\ aq_ret = NoStatuses

\* The four programs classify the same value (lab8 with self.pm25 set to it)
CallStatusTables ==
    /\ aq_pc = "call"
    /\ aq_ret' = [lab6    |-> get_air_quality_status(Some(aq_arg)),
                  lab6_2  |-> lab6_2_get_air_quality_status(Some(aq_arg)),
                  lab8    |-> lab8_get_air_quality_status(Some(aq_arg)),
                  lab8try |-> lab8try_get_air_quality(aq_arg)]
    /\ aq_pc' = "done"
    /\ UNCHANGED <<aq_arg, coreVars, refreshVars, kioskVars, sideVars>>

(***************************************************************************)
(* The tremor updates of lab6, lab6_2, lab8 and lab8try side by side       *)
(***************************************************************************)
\* current_tremor = 0.01 / self.tremor = 0.01 / self.prev_tremor = 0.01
SideStart == [p \in TablePrograms |-> TREMOR_BASELINE]

SideIdle == side = SideStart /\ side_pc = "idle"

lab8try_update_tremor_unclamped(sound_detected, prev_tremor) ==
    IF sound_detected THEN RoundSpike(prev_tremor) ELSE RoundDecay(prev_tremor)

\* lab8try update_sensors: tremor = round(...) if sound_detected else round(...);
\* tremor = max(0.001, min(tremor, 0.10))
lab8try_update_tremor(sound_detected, prev_tremor) ==
    LET t == IF sound_detected THEN RoundSpike(prev_tremor)
                               ELSE RoundDecay(prev_tremor)
    IN  Max(TREMOR_MIN, Min(t, TREMOR_MAX))

\* The four programs started, each about to take its first reading
SideInit ==
    /\ side = SideStart
    /\ side_pc = "cycle"

\* One cycle of each program on the same reading of the sound sensor
SideCycle(sound_detected) ==
    /\ side_pc = "cycle"
    /\ side' = [lab6    |-> calculate_tremor(sound_detected, side["lab6"]),
                lab6_2  |-> lab6_2_calculate_tremor(sound_detected, side["lab6_2"]),
                lab8    |-> lab8_calculate_derived_tremor(sound_detected, side["lab8"]),
                lab8try |-> lab8try_update_tremor(sound_detected, side["lab8try"])]
    /\ side_pc' = "sleep"
    /\ UNCHANGED <<coreVars, refreshVars, kioskVars, tableVars>>

\* time.sleep(...) / root.after(...), then the next cycle
SideSleep ==
    /\ side_pc = "sleep"
    /\ side_pc' = "cycle"
    /\ UNCHANGED <<side, coreVars, refreshVars, kioskVars, tableVars>>

\* lab7 idle after construction, lab8 and the function calls not started
LabIdle == RefreshInit /\ KioskIdle /\ TableIdle /\ SideIdle

(***************************************************************************)
(* Specifications                                                          *)
(***************************************************************************)

\* Volcano.py: main_loop on whatever hardware the imports found
Init == VolcanoInit /\ EvalIdle /\ TremorIdle /\ CsvIdle /\ LabIdle
Next ==
    \/ ReadSensors
    \/ DetermineAlert
    \/ Actuate
    \/ FirebasePush
    \/ Sleep
    \/ KeyboardInterrupt
Spec == Init /\ [][Next]_vars

\* Volcano.evaluate_alert as a function of its four arguments
EvalSpecInit == VolcanoIdle /\ EvalInit /\ TremorIdle /\ CsvIdle /\ LabIdle
EvalNext == CallEvaluateAlert
EvalSpec == EvalSpecInit /\ [][EvalNext]_vars

\* The tremor of lab6, lab6_2 and lab8 under any sound readings
TremorSpecInit == VolcanoIdle /\ EvalIdle /\ TremorInit /\ CsvIdle /\ LabIdle
TremorNext ==
    \/ \E sound_detected \in BOOLEAN : Lab6Cycle(sound_detected)
    \/ \E sound_detected \in BOOLEAN : Lab6_2Cycle(sound_detected)
    \/ \E sound_detected \in BOOLEAN : Lab8Cycle(sound_detected)
    \/ TremorSleep
TremorSpec == TremorSpecInit /\ [][TremorNext]_vars

\* The tremor from any value of its range when no sound is ever detected.
\* The loops are `while True`: a cycle that can run does run.
DecayInit ==
    /\ prog \in Programs
    /\ tremor \in TREMOR_MIN..TREMOR_MAX
    /\ tpc = "cycle"
DecaySpecInit == VolcanoIdle /\ EvalIdle /\ DecayInit /\ CsvIdle /\ LabIdle
DecayNext ==
    \/ Lab6Cycle(FALSE)
    \/ Lab6_2Cycle(FALSE)
    \/ Lab8Cycle(FALSE)
    \/ TremorSleep
DecaySpec == DecaySpecInit /\ [][DecayNext]_vars /\ WF_vars(DecayNext)

\* Runs of lab6.py, one after the other, in one directory
CsvSpecInit == VolcanoIdle /\ EvalIdle /\ TremorIdle /\ CsvInit /\ LabIdle
CsvNext ==
    \/ StartRun
    \/ InitializeCsv
    \/ ReadAndLogData
    \/ StopRun
CsvSpec == CsvSpecInit /\ [][CsvNext]_vars

\* lab7.py: the viewer under any clicks on the auto-refresh checkbox
RefreshSpecInit == VolcanoIdle /\ EvalIdle /\ TremorIdle /\ CsvIdle /\ LabIdle
RefreshNext ==
    \/ ToggleAutoRefresh
    \/ AutoRefreshLoop
    \/ RefreshTick
RefreshSpec == RefreshSpecInit /\ [][RefreshNext]_vars

\* lab8.py: the kiosk's sensor thread against the 1-second update_loop, the
\* dashboard staying shown
BeepSpecInit == VolcanoIdle /\ EvalIdle /\ TremorIdle /\ CsvIdle
                /\ RefreshInit /\ KioskInit /\ TableIdle /\ SideIdle
BeepNext ==
    \/ SensorRead(MaxReads)
    \/ CalcPm25
    \/ CalcAsh
    \/ CalcTremor
    \/ CountRead
    \/ SensorWake
    \/ UpdateLoop
    \/ KioskTick
BeepSpec == BeepSpecInit /\ [][BeepNext]_vars

\* lab8.py: the sensor thread against DashboardPage.update_data, statement by
\* statement
DashSpecInit == BeepSpecInit
DashNext ==
    \/ SensorRead(MaxDashReads)
    \/ CalcPm25
    \/ CalcAsh
    \/ CalcTremor
    \/ CountRead
    \/ SensorSleeps
    \/ SensorWake
    \/ UpdateDataReadPm25
    \/ UpdateDataReadAsh
    \/ UpdateDataShow
DashSpec == DashSpecInit /\ [][DashNext]_vars

\* The status tables as functions of the PM2.5 value
TableSpecInit == VolcanoIdle /\ EvalIdle /\ TremorIdle /\ CsvIdle
                 /\ RefreshInit /\ KioskIdle /\ TableInit /\ SideIdle
TableNext == CallStatusTables
TableSpec == TableSpecInit /\ [][TableNext]_vars

\* The four tremor updates in step on one sequence of sound readings
SideSpecInit == VolcanoIdle /\ EvalIdle /\ TremorIdle /\ CsvIdle
                /\ RefreshInit /\ KioskIdle /\ TableIdle /\ SideInit
SideNext ==
    \/ \E sound_detected \in BOOLEAN : SideCycle(sound_detected)
    \/ SideSleep
SideSpec == SideSpecInit /\ [][SideNext]_vars

(***************************************************************************)
(* Properties                                                              *)
(***************************************************************************)

SetMax(S) == CHOOSE m \in S : \A x \in S : x <= m

\* The staged thresholds as a table, in the order the function tests them:
\* which argument, the threshold (in the model's units), the level, the label.
Stages == <<
    [arg |-> "accel_mag", threshold |-> 50,   level |-> 1, label |-> "Light tremor"],
    [arg |-> "mqv",       threshold |-> 1000, level |-> 1, label |-> "Slight gas rise"],
    [arg |-> "temp",      threshold |-> 450,  level |-> 1, label |-> "Slight temperature increase"],
    [arg |-> "accel_mag", threshold |-> 150,  level |-> 2, label |-> "Elevated tremor"],
    [arg |-> "mqv",       threshold |-> 1800, level |-> 2, label |-> "Moderate gas increase"],
    [arg |-> "temp",      threshold |-> 600,  level |-> 2, label |-> "High temperature"],
    [arg |-> "accel_mag", threshold |-> 500,  level |-> 3, label |-> "Strong tremor"],
    [arg |-> "pm25",      threshold |-> 150,  level |-> 3, label |-> "High ash emission"],
    [arg |-> "mqv",       threshold |-> 2500, level |-> 3, label |-> "High gas level"],
    [arg |-> "accel_mag", threshold |-> 1000, level |-> 4, label |-> "Very strong tremor"],
    [arg |-> "pm25",      threshold |-> 350,  level |-> 4, label |-> "Hazardous ash emission"],
    [arg |-> "accel_mag", threshold |-> 1500, level |-> 5, label |-> "Extreme tremor (eruption)"],
    [arg |-> "pm25",      threshold |-> 500,  level |-> 5, label |-> "Extreme ash (eruption)"] >>

\* A stage is met when its reading is supplied (not None) and at or above
\* its threshold.
StageMet(st, args) == args[st.arg] # None /\ Val(args[st.arg]) >= st.threshold
MetStages(args) == SelectSeq(Stages, LAMBDA st : StageMet(st, args))
Labels(sts) == [i \in 1..Len(sts) |-> sts[i].label]

\* C1: for every combination of pm25, accel_mag, mqv and temp, the level
\* evaluate_alert returns is the highest level among the stages whose
\* threshold a supplied reading meets, and 0 when no stage is met.
C1_StagedThresholds ==
    ea_pc = "returned" =>
        LET met == MetStages(ea_args)
        IN  ea_ret.level = SetMax({0} \cup {met[i].level : i \in 1..Len(met)})

\* C1's case: only the temperature is supplied, at the level-2 threshold.
C1_Witness ==
    /\ ea_pc = "returned"
    /\ ea_args = [pm25 |-> None, accel_mag |-> None, mqv |-> None, temp |-> Some(600)]
    /\ ea_ret.level = 2

\* C2: for every input evaluate_alert returns a level within 0..5 together
\* with a non-empty reason string.
C2_LevelAndReason ==
    ea_pc = "returned" => ea_ret.level \in 0..5 /\ ea_ret.reason # ""

\* C2's case: readings that are supplied but all zero.
C2_Witness ==
    /\ ea_pc = "returned"
    /\ ea_args = [pm25 |-> Some(0), accel_mag |-> Some(0), mqv |-> Some(0), temp |-> Some(0)]
    /\ ea_ret.level = 0
    /\ ea_ret.reason # ""

\* C3: the reason is 'Background levels' exactly when the level is 0; with
\* every reading None the result is level 0 with 'Background levels'; when
\* the level is at least 1 the reason is the list of the triggered
\* conditions, of which there is at least one.
C3_BackgroundReason ==
    ea_pc = "returned" =>
        LET met == MetStages(ea_args)
        IN  /\ (ea_ret.reason = "Background levels") <=> (ea_ret.level = 0)
            /\ ea_args = NoArgs => ea_ret = [level |-> 0, reason |-> "Background levels"]
            /\ ea_ret.level >= 1 => Len(met) >= 1 /\ ea_ret.reason = Join(Labels(met))

\* C3's case: an ash reading alone raises the level, and is the reason.
C3_Witness ==
    /\ ea_pc = "returned"
    /\ ea_args = [pm25 |-> Some(350), accel_mag |-> None, mqv |-> None, temp |-> None]
    /\ ea_ret = [level |-> 4, reason |-> "High ash emission; Hazardous ash emission"]

\* The cycle's readings are back at background: no threshold of the three
\* readings main_loop passes to evaluate_alert is met.
BackgroundReadings ==
    MetStages([pm25 |-> pm[2], accel_mag |-> accel, mqv |-> mqv, temp |-> None]) = <<>>

\* What a run that has seen no earlier cycle produces on this cycle's readings.
FirstCycleResult ==
    LET r == evaluate_alert(pm[2], accel, mqv, None)
    IN  [level |-> r.level, reason |-> r.reason,
         out |-> ActuateOutputs(r.level, OutputsOff)]

AfterActuation == pc \in {"log", "sleep"}

\* C4: the level, reason and actuator settings of a cycle are determined by
\* that cycle's readings alone: they are what a run with no earlier cycle
\* produces on the same readings, so any two runs agree on them; and in a
\* cycle whose readings are at background the level is 0 and beacon and
\* siren are off, whatever the earlier cycles read.
C4_Stateless ==
    AfterActuation =>
        /\ level = FirstCycleResult.level
        /\ reason = FirstCycleResult.reason
        /\ out = FirstCycleResult.out
        /\ BackgroundReadings => level = 0 /\ ~out.beacon /\ ~out.siren

\* C4's case: after an earlier alarm cycle, a cycle at background on hardware
\* that drives every output.
C4_Witness ==
    /\ pc = "log"
    /\ alarmed
    /\ GPIO_AVAILABLE /\ pwm_r = "PWM" /\ outPins = {BEACON_PIN, SIREN_PIN}
    /\ BackgroundReadings
    /\ level = 0 /\ ~out.beacon /\ ~out.siren

\* The outputs main_loop commands at each level.
LevelOutputs(lv) ==
    IF lv = 0 THEN [rgb |-> <<20, 80, 20>>, beacon |-> FALSE, siren |-> FALSE]
    ELSE IF lv = 1 THEN [rgb |-> <<80, 80, 20>>, beacon |-> TRUE, siren |-> FALSE]
    ELSE IF lv = 2 THEN [rgb |-> <<90, 40, 0>>, beacon |-> TRUE, siren |-> TRUE]
    ELSE [rgb |-> <<100, 0, 0>>, beacon |-> TRUE, siren |-> TRUE]

\* C5 as claimed: after the actuation step of every cycle the outputs are
\* those of the cycle's level, and so the siren is never on while the beacon
\* is off.
C5_OutputsFollowLevel ==
    AfterActuation =>
        /\ out = LevelOutputs(level)
        /\ out.siren => out.beacon

\* Which outputs the program can drive on the hardware it found.
RgbDriven    == GPIO_AVAILABLE /\ pwm_r = "PWM"
BeaconDriven == GPIO_AVAILABLE /\ BEACON_PIN \in outPins
SirenDriven  == GPIO_AVAILABLE /\ SIREN_PIN \in outPins

\* C5 (amended): after the actuation step of every cycle each output the
\* program can drive holds the value of the cycle's level, and each output
\* it cannot drive is still off; if the beacon can be driven, the siren is
\* not on while the beacon is off.
C5_DrivenOutputsFollowLevel ==
    AfterActuation =>
        /\ out.rgb = IF RgbDriven THEN LevelOutputs(level).rgb ELSE <<0, 0, 0>>
        /\ out.beacon = IF BeaconDriven THEN LevelOutputs(level).beacon ELSE FALSE
        /\ out.siren = IF SirenDriven THEN LevelOutputs(level).siren ELSE FALSE
        /\ BeaconDriven => (out.siren => out.beacon)

\* C5's case: a level-1 cycle has actuated on hardware that drives every
\* output.
C5_Witness ==
    /\ pc = "log"
    /\ level = 1
    /\ RgbDriven /\ BeaconDriven /\ SirenDriven
    /\ out = [rgb |-> <<80, 80, 20>>, beacon |-> TRUE, siren |-> FALSE]

\* C6: starting from the baseline 0.01, after any sequence of sound and
\* no-sound readings the tremor of lab6, lab6_2 and lab8 is within
\* [0.001, 0.10].
C6_TremorInRange == tremor \in TREMOR_MIN..TREMOR_MAX

\* C6's case: enough sound readings in a row for the cap to apply.
C6_Witness == prog = "lab8" /\ tpc = "sleep" /\ tremor = TREMOR_MAX

\* C7: with no sound detected, from any tremor value in [0.001, 0.10] the
\* tremor reaches the minimum baseline 0.001 after finitely many cycles and
\* then stays there.
C7_DecayReachesBaseline == <>[](tremor = TREMOR_MIN)

IsPrefix(a, b) == Len(a) <= Len(b) /\ \A i \in 1..Len(a) : a[i] = b[i]

\* sensor_data.csv is the header followed by one row per completed cycle.
CsvWellFormed ==
    /\ ~csv_exists => csv_lines = <<>>
    /\ csv_exists =>
        /\ Len(csv_lines) = 1 + Len(logged)
        /\ csv_lines[1] = fieldnames
        /\ \A i \in 1..Len(logged) :
              /\ csv_lines[i + 1] # fieldnames
              /\ Len(csv_lines[i + 1]) = Len(fieldnames)
              /\ csv_lines[i + 1][1] = Timestamp(logged[i][1], logged[i][2])

\* C8: across any sequence of runs of lab6.py, sensor_data.csv holds exactly
\* one header row, as its first line, followed by exactly one data row per
\* completed logging cycle in cycle order; a later run appends to the file
\* and never rewrites the header or an earlier row.
C8_OneHeaderThenRows ==
    /\ []CsvWellFormed
    /\ [][IsPrefix(csv_lines, csv_lines')]_vars

\* C8's case: a second run has logged after a first run did.
C8_Witness ==
    /\ run = 2
    /\ logged = <<<<1, 1>>, <<2, 1>>>>
    /\ Len(csv_lines) = 3
    /\ csv_lines[1] = fieldnames

NoHardware ==
    /\ ~FIREBASE_AVAILABLE /\ ~DHT_AVAILABLE /\ ~PMS_AVAILABLE
    /\ ~MPU_AVAILABLE /\ ~ADS_AVAILABLE /\ ~GPIO_AVAILABLE

LoopStep == ReadSensors \/ DetermineAlert \/ Actuate \/ FirebasePush \/ Sleep

\* C9: with no sensor, GPIO or Firebase library, every cycle completes
\* without raising: every read helper returns None, evaluate_alert yields
\* level 0 with 'Background levels', the actuator helpers leave the outputs
\* alone, firebase_log returns False without pushing, and unless Ctrl-C
\* stopped it the loop can always take its next step.
C9_RunsWithoutHardware ==
    NoHardware =>
        /\ pc # "crashed"
        /\ pc # "read" =>
              /\ temp = None /\ hum = None /\ pm = <<None, None, None>>
              /\ accel = None /\ mqv = None
        /\ pc \in {"actuate", "log", "sleep"} =>
              level = 0 /\ reason = "Background levels"
        /\ out = OutputsOff
        /\ fb_ok = FALSE
        /\ pushed = "not called"
        /\ pc # "stopped" => ENABLED LoopStep

\* C9's case: without hardware, a second cycle is under way after a first
\* one completed at level 0.
C9_Witness ==
    /\ NoHardware
    /\ pc = "alert"
    /\ level = 0 /\ reason = "Background levels"

\* firebase_log returned True exactly when the push succeeded.
FirebaseLogResult ==
    /\ pc # "crashed"
    /\ fb_ok <=> (pushed = "ok")
    /\ ~FIREBASE_AVAILABLE => ~fb_ok /\ pushed = "not called"
    /\ pushed = "raise" => ~fb_ok

\* C10: firebase_log never raises, returns True exactly when the push
\* succeeded and False when Firebase is unavailable or the push raised; the
\* logging step leaves the actuator state of the cycle as it is, and unless
\* Ctrl-C stops the loop it goes on to the sleep before the next cycle.
C10_BestEffortLogging ==
    /\ []FirebaseLogResult
    /\ [][pc = "log" /\ pc' # "stopped" => out' = out /\ pc' = "sleep"]_vars

\* C10's case: the next cycle is under way after a push that raised, with
\* the alarm outputs of the failed cycle still set.
C10_Witness ==
    /\ pc = "alert"
    /\ FIREBASE_AVAILABLE /\ pushed = "raise" /\ ~fb_ok
    /\ out.beacon /\ out.siren

\* C11: lab7's auto-refresh, for any sequence of clicks on the checkbox, has at
\* every moment at most one auto_refresh_loop callback pending (so that, while
\* the checkbox stays enabled, refresh_data runs once per 5 seconds).
C11_AtMostOnePending == Len(after_queue) <= 1

\* Two timer-driven refreshes less than 5 seconds apart with the checkbox
\* enabled throughout: what a second pending callback leads to.
C11_TwoLoopsRunning ==
    auto_refresh /\ Len(after_queue) = 2 /\ after_queue[1] < after_queue[2]

\* C12: lab8's kiosk, with the dashboard shown and conditions hazardous, triggers
\* the urgent beep once per 10 read cycles: no two urgent beeps are triggered
\* for the same value of read_count.
C12_OneBeepPerReadCount == beeps <= 1

\* The urgent beep triggered on three successive update_loop ticks while the
\* sensor thread sleeps after its tenth read.
C12_ThreeBeeps == sensors.read_count = BEEP_EVERY /\ beeps = 3

\* C13: the air-quality status tables are copies of one another: for every
\* PM2.5 value lab6, lab6_2, lab8 and lab8try return the same status.
C13_SameStatus ==
    aq_pc = "done" => \A p, q \in TablePrograms : aq_ret[p] = aq_ret[q]

\* Where the four agree: everywhere but above 250 and up to 350.
C13_AgreeOutsideVeryUnhealthy ==
    aq_pc = "done" /\ ~(250 < aq_arg /\ aq_arg <= 350)
        => \A p, q \in TablePrograms : aq_ret[p] = aq_ret[q]

\* C14: run side by side from 0.01 on the same sequence of sound readings, the
\* tremor updates of lab6, lab6_2, lab8 and lab8try hold the same value after
\* every step.
C14_SameTremor == \A p, q \in TablePrograms : side[p] = side[q]

\* After a cycle, lab8try's double clamp and lab6's min have both cut a spike
\* to 0.10.
C14_Witness ==
    /\ side_pc = "sleep"
    /\ side["lab8try"] = TREMOR_MAX
    /\ side["lab6"] = TREMOR_MAX

\* C15: lab8's dashboard never mixes sensor cycles: the PM2.5 value, the status
\* and the ash level shown by one update_data call belong to one read cycle of
\* the sensor thread, the status being the classification of the shown value.
C15_OneCycleShown ==
    upc = "idle" /\ shown.pm25 # None =>
        /\ shown.status = lab8_get_air_quality_status(shown.pm25)
        /\ shown.ash_level = IF Val(shown.pm25) \in Pm25Dry THEN "HEAVY" ELSE "NONE"

\* A PM2.5 value of a wet-soil cycle shown with the status HAZARDOUS.
C15_SafeValueShownHazardous ==
    /\ upc = "idle" /\ shown.pm25 # None
    /\ Val(shown.pm25) \in Pm25Wet
    /\ shown.status = "HAZARDOUS"

\* A PM2.5 value shown with the ash level of another cycle.
C15_AshOfAnotherCycle ==
    /\ upc = "idle" /\ shown.pm25 # None
    /\ shown.status = lab8_get_air_quality_status(shown.pm25)
    /\ Val(shown.pm25) \in Pm25Dry
    /\ shown.ash_level = "NONE"

====
